---- MODULE Spec2Model ----
(* EasyID3 (mutagen/easyid3.py): a key-dispatch facade over an ID3 frame    *)
(* container.  Keys are modelled as sequences of one-character strings so   *)
(* that lower(), split(":", 1) and glob matching are computed as the code   *)
(* computes them.  Values are sequences of strings.                         *)
EXTENDS Integers, Sequences, FiniteSets, TLC

VARIABLES
    Get, Set, Delete, List,  \* the class tables of EasyID3
    id3,                     \* the frame container of the instance
    op, key, value, args,    \* the last call and its arguments
    func,                    \* the behaviour the last call resolved to
    result,                  \* what the last call returned or raised
    prev,                    \* the container before the last call
    regs                     \* registrations made after module initialisation

vars == <<Get, Set, Delete, List, id3, op, key, value, args, func, result,
          prev, regs>>

----------------------------------------------------------------------------
(* Bounds of the exploration *)

\* longest value list handed to __setitem__
MaxLen == 2
\* most (role, person) pairs in a TMCL frame loaded from a file
MaxLoad == 1
\* most RegisterKey / RegisterTextKey calls after module initialisation
MaxRegs == 2

----------------------------------------------------------------------------
(* Strings *)

UpperChars == <<"A", "B", "C", "D", "E", "F", "G", "H", "I", "J", "K", "L", "M", "N", "O", "P", "Q", "R", "S", "T", "U", "V", "W", "X", "Y", "Z">>
LowerChars == <<"a", "b", "c", "d", "e", "f", "g", "h", "i", "j", "k", "l", "m", "n", "o", "p", "q", "r", "s", "t", "u", "v", "w", "x", "y", "z">>

\* the function taking ks[i] to vs[i] for i in 1..n
RECURSIVE ZipMap(_, _, _)
ZipMap(ks, vs, n) ==
    IF n = 1 THEN ks[1] :> vs[1]
    ELSE (ks[n] :> vs[n]) @@ ZipMap(ks, vs, n - 1)

\* the lowercase letter of each uppercase letter
LowerMap == ZipMap(UpperChars, LowerChars, Len(UpperChars))

\* str.lower() on one character
LowerChar(c) == IF c \in DOMAIN LowerMap THEN LowerMap[c] ELSE c

\* key.lower()
lower(k) == [i \in 1..Len(k) |-> LowerChar(k[i])]

\* key.split(":", 1): the index of the first ":" in the key, 0 when none
FirstColon(k) ==
    IF \E i \in 1..Len(k) : k[i] = ":"
    THEN CHOOSE i \in 1..Len(k) : k[i] = ":" /\ \A j \in 1..(i-1) : k[j] # ":"
    ELSE 0

\* key.split(":", 1)[1]; only evaluated when the key holds a ":"
wanted_role(k) == SubSeq(k, FirstColon(k) + 1, Len(k))

\* fnmatch.fnmatchcase(name, pat) for patterns made of literals, "*" and "?"
\* whether name from position i on matches pat from position j on
RECURSIVE GlobFrom(_, _, _, _)
GlobFrom(name, i, pat, j) ==
    IF j > Len(pat) THEN i > Len(name)
    ELSE IF pat[j] = "*"
         THEN \/ GlobFrom(name, i, pat, j + 1)
              \/ (i <= Len(name) /\ GlobFrom(name, i + 1, pat, j))
    ELSE IF pat[j] = "?"
         THEN i <= Len(name) /\ GlobFrom(name, i + 1, pat, j + 1)
    ELSE i <= Len(name) /\ name[i] = pat[j]
                        /\ GlobFrom(name, i + 1, pat, j + 1)

fnmatchcase(name, pat) == GlobFrom(name, 1, pat, 1)

\* code point order of the characters keys are made of
AsciiOrder == <<"*", ":", "=", "?">> \o UpperChars \o LowerChars

OrdMap ==
    ZipMap(AsciiOrder, [i \in 1..Len(AsciiOrder) |-> i], Len(AsciiOrder))

Ord(c) == OrdMap[c]

\* a <= b for two keys, as Python compares strings
RECURSIVE StrLeq(_, _)
StrLeq(a, b) ==
    IF a = <<>> THEN TRUE
    ELSE IF b = <<>> THEN FALSE
    ELSE IF Head(a) = Head(b) THEN StrLeq(Tail(a), Tail(b))
    ELSE Ord(Head(a)) < Ord(Head(b))

----------------------------------------------------------------------------
(* Outcomes of a call: a return value or the exception raised *)

\* a bag of keys: the elements of a list whose order is the dict's
EmptyBag == [k \in {} |-> 0]

Ok(v) == [exc |-> "none", key |-> <<>>, val |-> v, keys |-> EmptyBag]
KeyError(k) == [exc |-> "KeyError", key |-> k, val |-> <<>>, keys |-> EmptyBag]
EasyID3KeyError(k) ==
    [exc |-> "EasyID3KeyError", key |-> k, val |-> <<>>, keys |-> EmptyBag]
IndexError == [exc |-> "IndexError", key |-> <<>>, val |-> <<>>, keys |-> EmptyBag]
OkKeys(b) == [exc |-> "none", key |-> <<>>, val |-> <<>>, keys |-> b]

\* "except KeyError" catches KeyError and its subclass EasyID3KeyError
IsKeyError(r) == r.exc \in {"KeyError", "EasyID3KeyError"}

----------------------------------------------------------------------------
(* The frame container (mutagen.id3.ID3): a mapping from frame id to the   *)
(* frame's payload.  A text frame's payload is its text list, TMCL's is    *)
(* its people list of <<role, person>> pairs.                              *)

HasFrame(c, fid) == fid \in DOMAIN c

\* id3.add(frame), and assignment to the payload of the frame held under fid
AddFrame(c, fid, payload) == (fid :> payload) @@ c

\* del id3[fid]
DelFrame(c, fid) == [f \in DOMAIN c \ {fid} |-> c[f]]

\* TCON.genres read from the frame's text
genres(text) == text

\* [stamp.text for stamp in TDRC.text]
stamps(text) == text

EmptyID3 == [f \in {} |-> <<>>]

----------------------------------------------------------------------------
(* Behaviours: the functions stored in the registry *)

None == [fn |-> "None", frameid |-> ""]
Fn(name, fid) == [fn |-> name, frameid |-> fid]

\* RegisterTextKey.getter
text_getter(frameid, c, k) ==
    IF HasFrame(c, frameid) THEN [r |-> Ok(c[frameid]), id3 |-> c]
    ELSE [r |-> KeyError(<<frameid>>), id3 |-> c]

\* a setter that extends the text of a frame already there
text_setter_extends(frameid, c, k, v) ==
    AddFrame(c, frameid, IF HasFrame(c, frameid) THEN c[frameid] \o v ELSE v)

\* RegisterTextKey.setter
text_setter(frameid, c, k, v) == AddFrame(c, frameid, v)

\* RegisterTextKey.deleter
text_deleter(frameid, c, k) ==
    IF HasFrame(c, frameid)
    THEN [r |-> Ok(<<>>), id3 |-> DelFrame(c, frameid)]
    ELSE [r |-> KeyError(<<frameid>>), id3 |-> c]

genre_get(c, k) ==
    IF HasFrame(c, "TCON") THEN [r |-> Ok(genres(c["TCON"])), id3 |-> c]
    ELSE [r |-> KeyError(<<"TCON">>), id3 |-> c]

\* a genre setter that extends the genres of a frame already there
genre_set_extends(c, k, v) ==
    AddFrame(c, "TCON", IF HasFrame(c, "TCON") THEN c["TCON"] \o v ELSE v)

genre_set(c, k, v) == AddFrame(c, "TCON", v)

genre_delete(c, k) ==
    IF HasFrame(c, "TCON")
    THEN [r |-> Ok(<<>>), id3 |-> DelFrame(c, "TCON")]
    ELSE [r |-> KeyError(<<"TCON">>), id3 |-> c]

date_get(c, k) ==
    IF HasFrame(c, "TDRC") THEN [r |-> Ok(stamps(c["TDRC"])), id3 |-> c]
    ELSE [r |-> KeyError(<<"TDRC">>), id3 |-> c]

date_set(c, k, v) == AddFrame(c, "TDRC", v)

date_delete(c, k) ==
    IF HasFrame(c, "TDRC")
    THEN [r |-> Ok(<<>>), id3 |-> DelFrame(c, "TDRC")]
    ELSE [r |-> KeyError(<<"TDRC">>), id3 |-> c]

\* [p for p in people if p[0] != role]
OtherRoles(people, role) == SelectSeq(people, LAMBDA p : p[1] # role)

\* the persons of the pairs whose role is role, in order
PersonsOf(people, role) ==
    LET mine == SelectSeq(people, LAMBDA p : p[1] = role)
    IN  [i \in 1..Len(mine) |-> mine[i][2]]

\* a getter that creates the frame when it is absent, as performer_set does
performer_get_creates(c, k) ==
    IF FirstColon(k) = 0 THEN [r |-> IndexError, id3 |-> c]
    ELSE LET c1 == IF HasFrame(c, "TMCL") THEN c ELSE AddFrame(c, "TMCL", <<>>)
             people == PersonsOf(c1["TMCL"], wanted_role(k))
         IN  IF people # <<>> THEN [r |-> Ok(people), id3 |-> c1]
             ELSE [r |-> KeyError(k), id3 |-> c1]

performer_get(c, k) ==
    IF FirstColon(k) = 0 THEN [r |-> IndexError, id3 |-> c]
    ELSE IF ~HasFrame(c, "TMCL") THEN [r |-> KeyError(k), id3 |-> c]
    ELSE LET people == PersonsOf(c["TMCL"], wanted_role(k))
         IN  IF people # <<>> THEN [r |-> Ok(people), id3 |-> c]
             ELSE [r |-> KeyError(k), id3 |-> c]

\* a setter that keeps the pairs the role already has
performer_set_appends(c, k, v) ==
    IF FirstColon(k) = 0 THEN [r |-> IndexError, id3 |-> c]
    ELSE LET role == wanted_role(k)
             mcl == IF HasFrame(c, "TMCL") THEN c["TMCL"] ELSE <<>>
             people == mcl \o [i \in 1..Len(v) |-> <<role, v[i]>>]
         IN  [r |-> Ok(<<>>), id3 |-> AddFrame(c, "TMCL", people)]

performer_set(c, k, v) ==
    IF FirstColon(k) = 0 THEN [r |-> IndexError, id3 |-> c]
    ELSE LET role == wanted_role(k)
             mcl == IF HasFrame(c, "TMCL") THEN c["TMCL"] ELSE <<>>
             people == OtherRoles(mcl, role)
                         \o [i \in 1..Len(v) |-> <<role, v[i]>>]
         IN  [r |-> Ok(<<>>), id3 |-> AddFrame(c, "TMCL", people)]

\* a deleter that stores the filtered list even when it is empty
performer_delete_keeps_frame(c, k) ==
    IF FirstColon(k) = 0 THEN [r |-> IndexError, id3 |-> c]
    ELSE IF ~HasFrame(c, "TMCL") THEN [r |-> KeyError(k), id3 |-> c]
    ELSE LET people == OtherRoles(c["TMCL"], wanted_role(k))
         IN  IF people = c["TMCL"] THEN [r |-> KeyError(k), id3 |-> c]
             ELSE [r |-> Ok(<<>>), id3 |-> AddFrame(c, "TMCL", people)]

performer_delete(c, k) ==
    IF FirstColon(k) = 0 THEN [r |-> IndexError, id3 |-> c]
    ELSE IF ~HasFrame(c, "TMCL") THEN [r |-> KeyError(k), id3 |-> c]
    ELSE LET people == OtherRoles(c["TMCL"], wanted_role(k))
         IN  IF people = c["TMCL"] THEN [r |-> KeyError(k), id3 |-> c]
             ELSE IF people # <<>>
                  THEN [r |-> Ok(<<>>), id3 |-> AddFrame(c, "TMCL", people)]
             ELSE [r |-> Ok(<<>>), id3 |-> DelFrame(c, "TMCL")]

k_performer_colon == <<"p", "e", "r", "f", "o", "r", "m", "e", "r", ":">>

\* the set of "performer:" + role over the roles of the frame
performer_list(c, k) ==
    IF ~HasFrame(c, "TMCL") THEN {}
    ELSE {k_performer_colon \o c["TMCL"][i][1] : i \in 1..Len(c["TMCL"])}

----------------------------------------------------------------------------
(* The key registry: four tables from lowercase pattern to behaviour *)

\* d[k] = v
Put(d, k, v) == (k :> v) @@ d

EmptyTable == [p \in {} |-> None]

\* the class attributes Set, Get, Delete, List as first bound
EmptyTables ==
    [Get |-> EmptyTable, Set |-> EmptyTable, Delete |-> EmptyTable,
     List |-> EmptyTable]

\* a RegisterKey that stores the pattern as the caller spelled it
RegisterKeyOn_as_spelled(t, k, getter, setter, deleter, lister) ==
    [Get    |-> IF getter # None THEN Put(t.Get, k, getter) ELSE t.Get,
     Set    |-> IF setter # None THEN Put(t.Set, k, setter) ELSE t.Set,
     Delete |-> IF deleter # None THEN Put(t.Delete, k, deleter) ELSE t.Delete,
     List   |-> IF lister # None THEN Put(t.List, k, lister) ELSE t.List]

\* EasyID3.RegisterKey on a record of the four tables
RegisterKeyOn(t, k, getter, setter, deleter, lister) ==
    LET k0 == lower(k)
    IN  [Get    |-> IF getter # None THEN Put(t.Get, k0, getter) ELSE t.Get,
         Set    |-> IF setter # None THEN Put(t.Set, k0, setter) ELSE t.Set,
         Delete |-> IF deleter # None THEN Put(t.Delete, k0, deleter)
                    ELSE t.Delete,
         List   |-> IF lister # None THEN Put(t.List, k0, lister) ELSE t.List]

\* EasyID3.RegisterTextKey on a record of the four tables
RegisterTextKeyOn(t, k, frameid) ==
    RegisterKeyOn(t, k, Fn("text_getter", frameid), Fn("text_setter", frameid),
                  Fn("text_deleter", frameid), None)

\* the frame id / key pairs registered as text keys at module initialisation
TextKeys ==
    << <<"TALB", <<"a", "l", "b", "u", "m">>>>,
       <<"TBPM", <<"b", "p", "m">>>>,
       <<"TCMP", <<"c", "o", "m", "p", "i", "l", "a", "t", "i", "o", "n">>>>,
       <<"TCOM", <<"c", "o", "m", "p", "o", "s", "e", "r">>>>,
       <<"TCOP", <<"c", "o", "p", "y", "r", "i", "g", "h", "t">>>>,
       <<"TENC", <<"e", "n", "c", "o", "d", "e", "d", "b", "y">>>>,
       <<"TEXT", <<"l", "y", "r", "i", "c", "i", "s", "t">>>>,
       <<"TLEN", <<"l", "e", "n", "g", "t", "h">>>>,
       <<"TMED", <<"m", "e", "d", "i", "a">>>>,
       <<"TMOO", <<"m", "o", "o", "d">>>>,
       <<"TIT2", <<"t", "i", "t", "l", "e">>>>,
       <<"TIT3", <<"v", "e", "r", "s", "i", "o", "n">>>>,
       <<"TPE1", <<"a", "r", "t", "i", "s", "t">>>>,
       <<"TPE2", <<"p", "e", "r", "f", "o", "r", "m", "e", "r">>>>,
       <<"TPE3", <<"c", "o", "n", "d", "u", "c", "t", "o", "r">>>>,
       <<"TPE4", <<"a", "r", "r", "a", "n", "g", "e", "r">>>>,
       <<"TPOS", <<"d", "i", "s", "c", "n", "u", "m", "b", "e", "r">>>>,
       <<"TPUB", <<"o", "r", "g", "a", "n", "i", "z", "a", "t", "i", "o", "n">>>>,
       <<"TRCK", <<"t", "r", "a", "c", "k", "n", "u", "m", "b", "e", "r">>>>,
       <<"TOLY", <<"a", "u", "t", "h", "o", "r">>>>,
       <<"TSO2", <<"a", "l", "b", "u", "m", "a", "r", "t", "i", "s", "t", "s", "o", "r", "t">>>>,
       <<"TSOA", <<"a", "l", "b", "u", "m", "s", "o", "r", "t">>>>,
       <<"TSOC", <<"c", "o", "m", "p", "o", "s", "e", "r", "s", "o", "r", "t">>>>,
       <<"TSOP", <<"a", "r", "t", "i", "s", "t", "s", "o", "r", "t">>>>,
       <<"TSOT", <<"t", "i", "t", "l", "e", "s", "o", "r", "t">>>>,
       <<"TSRC", <<"i", "s", "r", "c">>>>,
       <<"TSST", <<"d", "i", "s", "c", "s", "u", "b", "t", "i", "t", "l", "e">>>> >>

\* keys the model's callers use
k_title == <<"t", "i", "t", "l", "e">>
k_TITLE == <<"T", "I", "T", "L", "E">>
k_performer == <<"p", "e", "r", "f", "o", "r", "m", "e", "r">>
k_performer_guitar == <<"p", "e", "r", "f", "o", "r", "m", "e", "r", ":", "g", "u", "i", "t", "a", "r">>
k_Performer_Guitar == <<"P", "e", "r", "f", "o", "r", "m", "e", "r", ":", "G", "u", "i", "t", "a", "r">>
k_performer_drums == <<"p", "e", "r", "f", "o", "r", "m", "e", "r", ":", "d", "r", "u", "m", "s">>
k_performer_star == <<"p", "e", "r", "f", "o", "r", "m", "e", "r", ":", "*">>
k_genre == <<"g", "e", "n", "r", "e">>
k_Genre == <<"G", "e", "n", "r", "e">>
k_date == <<"d", "a", "t", "e">>
k_NonExistent == <<"N", "o", "n", "E", "x", "i", "s", "t", "e", "n", "t">>
k_P_star == <<"P", "*">>
r_guitar == <<"g", "u", "i", "t", "a", "r">>
r_drums == <<"d", "r", "u", "m", "s">>
r_Guitar == <<"G", "u", "i", "t", "a", "r">>

RECURSIVE RegisterTextKeys(_, _)
RegisterTextKeys(t, n) ==
    IF n = 0 THEN t
    ELSE RegisterTextKeyOn(RegisterTextKeys(t, n - 1),
                           TextKeys[n][2], TextKeys[n][1])

\* the tables once the module is imported
Builtin ==
    LET t1 == RegisterTextKeys(EmptyTables, Len(TextKeys))
        t2 == RegisterKeyOn(t1, k_genre, Fn("genre_get", "TCON"),
                            Fn("genre_set", "TCON"), Fn("genre_delete", "TCON"),
                            None)
        t3 == RegisterKeyOn(t2, k_date, Fn("date_get", "TDRC"),
                            Fn("date_set", "TDRC"), Fn("date_delete", "TDRC"),
                            None)
    IN  RegisterKeyOn(t3, k_performer_star, Fn("performer_get", "TMCL"),
                      Fn("performer_set", "TMCL"),
                      Fn("performer_delete", "TMCL"),
                      Fn("performer_list", "TMCL"))

\* mutagen._util.dict_match(d, key): the behaviours it may return.  A literal
\* entry wins; otherwise the first glob that matches in the dict's iteration
\* order, which is any of the matching ones; None when nothing matches.
dict_match(d, k) ==
    IF k \in DOMAIN d THEN {d[k]}
    ELSE LET m == {p \in DOMAIN d : fnmatchcase(k, p)}
         IN  IF m = {} THEN {None} ELSE {d[p] : p \in m}

\* func(id3, key) for a getter
CallGetter(fn, c, k) ==
    CASE fn.fn = "text_getter" -> text_getter(fn.frameid, c, k)
      [] fn.fn = "genre_get" -> genre_get(c, k)
      [] fn.fn = "date_get" -> date_get(c, k)
      [] fn.fn = "performer_get" -> performer_get(c, k)

\* func(id3, key, value) for a setter
CallSetter(fn, c, k, v) ==
    CASE fn.fn = "text_setter" ->
            [r |-> Ok(<<>>), id3 |-> text_setter(fn.frameid, c, k, v)]
      [] fn.fn = "genre_set" -> [r |-> Ok(<<>>), id3 |-> genre_set(c, k, v)]
      [] fn.fn = "date_set" -> [r |-> Ok(<<>>), id3 |-> date_set(c, k, v)]
      [] fn.fn = "performer_set" -> performer_set(c, k, v)

\* func(id3, key) for a deleter
CallDeleter(fn, c, k) ==
    CASE fn.fn = "text_deleter" -> text_deleter(fn.frameid, c, k)
      [] fn.fn = "genre_delete" -> genre_delete(c, k)
      [] fn.fn = "date_delete" -> date_delete(c, k)
      [] fn.fn = "performer_delete" -> performer_delete(c, k)

\* func(id3, key) for a lister
CallLister(fn, c, k) ==
    CASE fn.fn = "performer_list" -> performer_list(c, k)

----------------------------------------------------------------------------
(* The facade's operations as functions of the tables and the container.   *)
(* Each yields the set of outcomes the call may have (one, unless several  *)
(* globs match the key).                                                   *)

\* a __getitem__ that matches the key against every pattern as a glob
GetItem_glob_only(get, c, k) ==
    LET k0 == lower(k)
        m == {p \in DOMAIN get : fnmatchcase(k0, p)}
    IN  {IF fn # None
         THEN LET o == CallGetter(fn, c, k0)
              IN  [f |-> fn, id3 |-> o.id3, r |-> o.r]
         ELSE [f |-> fn, id3 |-> c, r |-> EasyID3KeyError(k0)]
            : fn \in IF m = {} THEN {None} ELSE {get[p] : p \in m}}

\* a __getitem__ that reports the key as the caller spelled it
GetItem_reports_spelling(get, c, k) ==
    LET k0 == lower(k)
    IN  {IF fn # None
         THEN LET o == CallGetter(fn, c, k0)
              IN  [f |-> fn, id3 |-> o.id3, r |-> o.r]
         ELSE [f |-> fn, id3 |-> c, r |-> EasyID3KeyError(k)]
            : fn \in dict_match(get, k0)}

\* EasyID3.__getitem__
GetItem(get, c, k) ==
    LET k0 == lower(k)
    IN  {IF fn # None
         THEN LET o == CallGetter(fn, c, k0)
              IN  [f |-> fn, id3 |-> o.id3, r |-> o.r]
         ELSE [f |-> fn, id3 |-> c, r |-> EasyID3KeyError(k0)]
            : fn \in dict_match(get, k0)}

\* a __setitem__ that looks the key up as the caller spelled it
SetItem_as_spelled(set, c, k, v) ==
    {IF fn # None
     THEN LET o == CallSetter(fn, c, k, v)
          IN  [f |-> fn, id3 |-> o.id3, r |-> o.r]
     ELSE [f |-> fn, id3 |-> c, r |-> EasyID3KeyError(k)]
        : fn \in dict_match(set, k)}

\* EasyID3.__setitem__, value already a list
SetItem(set, c, k, v) ==
    LET k0 == lower(k)
    IN  {IF fn # None
         THEN LET o == CallSetter(fn, c, k0, v)
              IN  [f |-> fn, id3 |-> o.id3, r |-> o.r]
         ELSE [f |-> fn, id3 |-> c, r |-> EasyID3KeyError(k0)]
            : fn \in dict_match(set, k0)}

\* EasyID3.__delitem__
DelItem(del, c, k) ==
    LET k0 == lower(k)
    IN  {IF fn # None
         THEN LET o == CallDeleter(fn, c, k0)
              IN  [f |-> fn, id3 |-> o.id3, r |-> o.r]
         ELSE [f |-> fn, id3 |-> c, r |-> EasyID3KeyError(k0)]
            : fn \in dict_match(del, k0)}

\* DictMixin.__contains__: key in self, for a pattern of the Get table
Contains(get, c, p) == \A o \in GetItem(get, c, p) : o.r.exc = "none"

\* what the pattern p of the Get table adds to keys()
KeysFrom(get, list, c, p) ==
    IF p \in DOMAIN list THEN CallLister(list[p], c, p)
    ELSE IF Contains(get, c, p) THEN {p} ELSE {}

\* EasyID3.keys: the bag of the keys of the list it returns
Keys(get, list, c) ==
    IF \E p \in DOMAIN get \ DOMAIN list :
           \E o \in GetItem(get, c, p) : o.r.exc # "none" /\ ~IsKeyError(o.r)
    THEN IndexError
    ELSE LET found == UNION {{<<p, k>> : k \in KeysFrom(get, list, c, p)}
                                : p \in DOMAIN get}
         IN  OkKeys([k \in {pk[2] : pk \in found} |->
                        Cardinality({pk \in found : pk[2] = k})])

\* sorted(keys)
RECURSIVE Sorted(_)
Sorted(b) ==
    IF DOMAIN b = {} THEN <<>>
    ELSE LET m == CHOOSE x \in DOMAIN b : \A y \in DOMAIN b : StrLeq(x, y)
         IN  [i \in 1..b[m] |-> m] \o Sorted([k \in DOMAIN b \ {m} |-> b[k]])

\* "%s=%s" % (key, value) for each value
Lines(k, values) == [i \in 1..Len(values) |-> k \o <<"=", values[i]>>]

\* the loop of pprint over the sorted keys: the first get that raises ends it
RECURSIVE PPrintLoop(_, _, _)
PPrintLoop(get, c, ks) ==
    IF ks = <<>> THEN {Ok(<<>>)}
    ELSE UNION {IF o.r.exc # "none" THEN {o.r}
                ELSE {IF rest.exc # "none" THEN rest
                      ELSE Ok(Lines(Head(ks), o.r.val) \o rest.val)
                         : rest \in PPrintLoop(get, c, Tail(ks))}
                   : o \in GetItem(get, c, Head(ks))}

\* EasyID3.pprint: the lines joined by "\n", as their sequence
PPrint(get, list, c) ==
    LET ks == Keys(get, list, c)
    IN  IF ks.exc # "none" THEN {ks} ELSE PPrintLoop(get, c, Sorted(ks.keys))

----------------------------------------------------------------------------
(* Inputs *)

Strings == {"x", "y"}

\* y, x, y, ... : the strings callers put in a list of n values
Sample(n) == [i \in 1..n |-> IF i % 2 = 1 THEN "y" ELSE "x"]

\* the value lists callers pass: the stretches of Sample(MaxLen)
Values ==
    {SubSeq(Sample(MaxLen), i, j) : i \in 1..(MaxLen + 1), j \in 0..MaxLen}

\* keys of the text, genre and date behaviours, and one never registered
InputKeys == {k_title, k_genre, k_date, k_NonExistent}

\* keys of the performer behaviours, and one never registered
PerformerKeys ==
    {k_performer_guitar, k_Performer_Guitar, k_performer_drums, k_NonExistent}

\* keys spelled with capitals: a text key, the genre key, a composite key
CapitalKeys == {k_TITLE, k_Genre, k_Performer_Guitar}

\* the (role, person) pairs of a TMCL frame read from a file
LoadPairs == {<<r_Guitar, "x">>, <<r_drums, "y">>}

RECURSIVE PeopleUpTo(_)
PeopleUpTo(n) ==
    IF n = 0 THEN {<<>>}
    ELSE PeopleUpTo(n - 1)
           \cup {Append(l, p) : l \in {m \in PeopleUpTo(n - 1) : Len(m) = n - 1},
                                p \in LoadPairs}

\* the containers a new EasyID3 holds: empty, or what load(filename) read
Loaded == {EmptyID3} \cup {"TIT2" :> v : v \in Values}

\* patterns registered after module initialisation: a literal that the glob
\* "performer:*" also matches, and a glob that also matches "performer"
RegPatterns == {k_Performer_Guitar, k_P_star}

\* the behaviours handed to RegisterKey, None for a kind left out
RegArgs ==
    {[getter |-> Fn("genre_get", "TCON"), setter |-> None, deleter |-> None,
      lister |-> None],
     [getter |-> Fn("date_get", "TDRC"), setter |-> Fn("date_set", "TDRC"),
      deleter |-> None, lister |-> None],
     [getter |-> None, setter |-> Fn("genre_set", "TCON"),
      deleter |-> Fn("genre_delete", "TCON"),
      lister |-> Fn("performer_list", "TMCL")]}

\* the keys callers use once the registrations are made
RegKeys == {k_performer, k_performer_guitar}

LoadedPerformers ==
    {EmptyID3} \cup {"TMCL" :> pp : pp \in PeopleUpTo(MaxLoad)}

----------------------------------------------------------------------------
(* The state machine *)

NoArgs == [getter |-> None, setter |-> None, deleter |-> None, lister |-> None]

\* EasyID3.__init__ on a container c, after the module's registrations
InitWith(containers) ==
    /\ Get = Builtin.Get
    /\ Set = Builtin.Set
    /\ Delete = Builtin.Delete
    /\ List = Builtin.List
    /\ id3 \in containers
    /\ op = "init"
    /\ key = <<>>
    /\ value = <<>>
    /\ args = NoArgs
    /\ func = None
    /\ result = Ok(<<>>)
    /\ prev = id3
    /\ regs = 0

Init == InitWith(Loaded)

InitPerformer == InitWith(LoadedPerformers)

Tables == <<Get, Set, Delete, List, regs>>

\* ezid3[k]
DoGetItem(k) ==
    /\ \E o \in GetItem(Get, id3, k) :
          /\ result' = o.r
          /\ func' = o.f
          /\ id3' = o.id3
    /\ op' = "getitem"
    /\ key' = k
    /\ value' = <<>>
    /\ args' = NoArgs
    /\ prev' = id3
    /\ UNCHANGED Tables

\* ezid3[k] = v, v a list of strings
DoSetItem(k, v) ==
    /\ \E o \in SetItem(Set, id3, k, v) :
          /\ result' = o.r
          /\ func' = o.f
          /\ id3' = o.id3
    /\ op' = "setitem"
    /\ key' = k
    /\ value' = v
    /\ args' = NoArgs
    /\ prev' = id3
    /\ UNCHANGED Tables

\* ezid3[k] = s, s a string: isinstance(value, basestring)
DoSetItemStr(k, s) == DoSetItem(k, <<s>>)

\* del ezid3[k]
DoDelItem(k) ==
    /\ \E o \in DelItem(Delete, id3, k) :
          /\ result' = o.r
          /\ func' = o.f
          /\ id3' = o.id3
    /\ op' = "delitem"
    /\ key' = k
    /\ value' = <<>>
    /\ args' = NoArgs
    /\ prev' = id3
    /\ UNCHANGED Tables

\* ezid3.keys()
DoKeys ==
    /\ result' = Keys(Get, List, id3)
    /\ op' = "keys"
    /\ key' = <<>>
    /\ value' = <<>>
    /\ args' = NoArgs
    /\ func' = None
    /\ prev' = id3
    /\ UNCHANGED <<id3, Tables>>

\* ezid3.pprint()
DoPPrint ==
    /\ \E r \in PPrint(Get, List, id3) : result' = r
    /\ op' = "pprint"
    /\ key' = <<>>
    /\ value' = <<>>
    /\ args' = NoArgs
    /\ func' = None
    /\ prev' = id3
    /\ UNCHANGED <<id3, Tables>>

Next ==
    \/ \E k \in InputKeys : DoGetItem(k)
    \/ \E k \in InputKeys, v \in Values : DoSetItem(k, v)
    \/ \E k \in InputKeys, s \in Strings : DoSetItemStr(k, s)
    \/ \E k \in InputKeys : DoDelItem(k)
    \/ DoKeys
    \/ DoPPrint

Spec == Init /\ [][Next]_vars

\* EasyID3.RegisterKey(p, getter, setter, deleter, lister).  Registrations
\* are explored before the instance is first used, at most MaxRegs of them.
DoRegisterKey(p, getter, setter, deleter, lister) ==
    /\ regs < MaxRegs
    /\ op \in {"init", "RegisterKey", "RegisterTextKey"}
    /\ LET t == RegisterKeyOn([Get |-> Get, Set |-> Set, Delete |-> Delete,
                               List |-> List], p, getter, setter, deleter,
                              lister)
       IN  /\ Get' = t.Get
           /\ Set' = t.Set
           /\ Delete' = t.Delete
           /\ List' = t.List
    /\ regs' = regs + 1
    /\ op' = "RegisterKey"
    /\ key' = p
    /\ value' = <<>>
    /\ args' = [getter |-> getter, setter |-> setter, deleter |-> deleter,
                lister |-> lister]
    /\ func' = None
    /\ result' = Ok(<<>>)
    /\ prev' = id3
    /\ UNCHANGED id3

\* EasyID3.RegisterTextKey(p, frameid)
DoRegisterTextKey(p, frameid) ==
    /\ regs < MaxRegs
    /\ op \in {"init", "RegisterKey", "RegisterTextKey"}
    /\ LET t == RegisterTextKeyOn([Get |-> Get, Set |-> Set, Delete |-> Delete,
                                   List |-> List], p, frameid)
       IN  /\ Get' = t.Get
           /\ Set' = t.Set
           /\ Delete' = t.Delete
           /\ List' = t.List
    /\ regs' = regs + 1
    /\ op' = "RegisterTextKey"
    /\ key' = p
    /\ value' = <<>>
    /\ args' = [getter |-> Fn("text_getter", frameid),
                setter |-> Fn("text_setter", frameid),
                deleter |-> Fn("text_deleter", frameid), lister |-> None]
    /\ func' = None
    /\ result' = Ok(<<>>)
    /\ prev' = id3
    /\ UNCHANGED id3

InitReg == InitWith({EmptyID3})

NextReg ==
    \/ \E p \in RegPatterns, a \in RegArgs :
          DoRegisterKey(p, a.getter, a.setter, a.deleter, a.lister)
    \/ \E p \in RegPatterns : DoRegisterTextKey(p, "TIT2")
    \/ \E k \in RegKeys : DoGetItem(k)
    \/ \E k \in RegKeys : DoSetItem(k, <<"x">>)
    \/ \E k \in RegKeys : DoSetItemStr(k, "x")
    \/ \E k \in RegKeys : DoDelItem(k)
    \/ DoKeys
    \/ DoPPrint

SpecReg == InitReg /\ [][NextReg]_vars

NextPerformer ==
    \/ \E k \in PerformerKeys : DoGetItem(k)
    \/ \E k \in PerformerKeys, v \in Values : DoSetItem(k, v)
    \/ \E k \in PerformerKeys, s \in Strings : DoSetItemStr(k, s)
    \/ \E k \in PerformerKeys : DoDelItem(k)
    \/ DoKeys
    \/ DoPPrint

SpecPerformer == InitPerformer /\ [][NextPerformer]_vars

NextCase ==
    \/ \E k \in CapitalKeys : DoGetItem(k)
    \/ \E k \in CapitalKeys, v \in Values : DoSetItem(k, v)
    \/ \E k \in CapitalKeys, s \in Strings : DoSetItemStr(k, s)
    \/ \E k \in CapitalKeys : DoDelItem(k)
    \/ DoKeys
    \/ DoPPrint

InitCase == InitWith({EmptyID3})

SpecCase == InitCase /\ [][NextCase]_vars

----------------------------------------------------------------------------
(* Properties *)

\* the keys registered through RegisterTextKey
TextKeyNames == {TextKeys[i][2] : i \in 1..Len(TextKeys)}

\* the table the last call looked its key up in
TableOf(o) ==
    CASE o = "getitem" -> Get
      [] o = "setitem" -> Set
      [] o = "delitem" -> Delete

\* no pattern of table t matches k, literally or as a glob
Unmatched(t, k) ==
    /\ k \notin DOMAIN t
    /\ \A p \in DOMAIN t : ~fnmatchcase(k, p)

\* the data the behaviour fn reads for key k is absent from container c
DataAbsent(fn, c, k) ==
    \/ ~HasFrame(c, fn.frameid)
    \/ /\ fn.frameid = "TMCL"
       /\ FirstColon(k) # 0
       /\ PersonsOf(c["TMCL"], wanted_role(k)) = <<>>

\* C1: for a key K registered through RegisterTextKey and a list V, whether
\* the frame was absent or present, set(K, V) succeeds and the get(K) that
\* follows returns exactly V, in the same order.  The first conjunct is about
\* the set the caller just made, the second about a set of any of the text
\* keys made in the current container.
C1_TextRoundTrip ==
    /\ (op = "setitem" /\ lower(key) \in TextKeyNames) =>
          /\ result.exc = "none"
          /\ \A o \in GetItem(Get, id3, key) : o.r = Ok(value)
    /\ \A K \in TextKeyNames, V \in Values :
          \A st \in SetItem(Set, id3, K, V) :
             /\ st.r.exc = "none"
             /\ \A o \in GetItem(Get, st.id3, K) : o.r = Ok(V)

\* C1 witness: "title" set to two values over a frame holding other text
C1_Witness ==
    /\ op = "setitem"
    /\ key = k_title
    /\ value = <<"y", "x">>
    /\ HasFrame(prev, "TIT2")
    /\ prev["TIT2"] = <<"x">>
    /\ result.exc = "none"

\* C2: a key that matches no pattern of the table of the requested operation
\* makes get, set and delete raise EasyID3KeyError carrying the lowercased
\* key, whatever the container holds; a plain KeyError is raised only when
\* the key resolved to a behaviour and its data is absent.
C2_InvalidKey ==
    (op \in {"getitem", "setitem", "delitem"}) =>
        /\ Unmatched(TableOf(op), lower(key)) =>
              /\ result = EasyID3KeyError(lower(key))
              /\ func = None
        /\ result.exc = "EasyID3KeyError" => Unmatched(TableOf(op), lower(key))
        /\ result.exc = "KeyError" =>
              /\ ~Unmatched(TableOf(op), lower(key))
              /\ func # None
              /\ DataAbsent(func, prev, lower(key))

\* C2 witness: delete of a never-registered key on a container with frames
C2_Witness ==
    /\ op = "delitem"
    /\ key = k_NonExistent
    /\ result = EasyID3KeyError(lower(k_NonExistent))
    /\ DOMAIN id3 # {}

\* C7: set("genre", V) replaces: whether the genre frame was absent or
\* present, the get("genre") that follows returns exactly V.
C7_GenreReplaces ==
    (op = "setitem" /\ lower(key) = k_genre) =>
        /\ result.exc = "none"
        /\ \A o \in GetItem(Get, id3, k_genre) : o.r = Ok(value)

\* C7 witness: a second set("genre", ...) over a frame with other genres
C7_Witness ==
    /\ op = "setitem"
    /\ key = k_genre
    /\ value = <<"x">>
    /\ HasFrame(prev, "TCON")
    /\ prev["TCON"] = <<"y", "x">>
    /\ id3["TCON"] = <<"x">>

\* the roles a TMCL frame of the model can hold
AllRoles == {r_guitar, r_drums, r_Guitar}

\* the people list of container c, empty when it has no TMCL frame
PeopleOf(c) == IF HasFrame(c, "TMCL") THEN c["TMCL"] ELSE <<>>

\* the frames other than fid are the same in containers a and b
SameExcept(a, b, fid) ==
    /\ DOMAIN a \ {fid} = DOMAIN b \ {fid}
    /\ \A f \in DOMAIN a \ {fid} : a[f] = b[f]

\* the last call went to the performer behaviour fn for role R
PerformerCall(o, fn) ==
    /\ op = o
    /\ func.fn = fn
    /\ FirstColon(lower(key)) # 0

LastRole == wanted_role(lower(key))

\* C3: delete("performer:R") on a frame that holds pairs of role R removes
\* exactly those pairs.  If pairs of other roles remain the frame keeps them
\* in their order and get on every other role returns what it returned
\* before; if none remains the frame is removed and get on every performer
\* key raises KeyError.  A delete never leaves an empty performer frame.
\* R is the role the call addresses: the part of the lowercased key after its
\* first colon, compared with the stored roles for equality as performer_delete
\* compares them.
C3_PerformerDelete ==
    /\ (/\ PerformerCall("delitem", "performer_delete")
        /\ PersonsOf(PeopleOf(prev), LastRole) # <<>>) =>
          LET rest == SelectSeq(prev["TMCL"], LAMBDA p : p[1] # LastRole)
          IN  /\ result.exc = "none"
              /\ SameExcept(prev, id3, "TMCL")
              /\ rest # <<>> =>
                    /\ HasFrame(id3, "TMCL")
                    /\ id3["TMCL"] = rest
                    /\ \A R \in AllRoles \ {LastRole} :
                          performer_get(id3, k_performer_colon \o R).r
                            = performer_get(prev, k_performer_colon \o R).r
              /\ rest = <<>> =>
                    /\ ~HasFrame(id3, "TMCL")
                    /\ \A R \in AllRoles :
                          performer_get(id3, k_performer_colon \o R).r.exc
                            = "KeyError"
                    /\ \A k \in PerformerKeys :
                          FirstColon(k) # 0 =>
                             \A o \in GetItem(Get, id3, k) : o.r.exc = "KeyError"
    /\ (PerformerCall("delitem", "performer_delete") /\ result.exc = "none") =>
          (HasFrame(id3, "TMCL") => id3["TMCL"] # <<>>)

\* C3 witness: a delete of one role that leaves pairs of another role
C3_Witness ==
    /\ PerformerCall("delitem", "performer_delete")
    /\ result.exc = "none"
    /\ HasFrame(id3, "TMCL")
    /\ Len(id3["TMCL"]) >= 1
    /\ Len(prev["TMCL"]) > Len(id3["TMCL"])

\* a delete of the last role, which removes the frame
C3_WitnessLastRole ==
    /\ PerformerCall("delitem", "performer_delete")
    /\ result.exc = "none"
    /\ ~HasFrame(id3, "TMCL")
    /\ Len(prev["TMCL"]) = 2

\* C8: set("performer:R", V) removes the pairs of role R, keeps the pairs of
\* the other roles in their order and appends one (R, v) pair per v of V,
\* creating the frame when absent; for non-empty V the get that follows
\* returns V, and get on every other role returns what it returned before.
\* R is the role the call addresses: the part of the lowercased key after its
\* first colon, compared with the stored roles for equality as performer_set
\* compares them.
C8_PerformerSet ==
    PerformerCall("setitem", "performer_set") =>
        /\ result.exc = "none"
        /\ HasFrame(id3, "TMCL")
        /\ SameExcept(prev, id3, "TMCL")
        /\ id3["TMCL"] =
              SelectSeq(PeopleOf(prev), LAMBDA p : p[1] # LastRole)
                \o [i \in 1..Len(value) |-> <<LastRole, value[i]>>]
        /\ value # <<>> => \A o \in GetItem(Get, id3, key) : o.r = Ok(value)
        /\ \A R \in AllRoles \ {LastRole} :
              LET k == k_performer_colon \o R
              IN  performer_get(id3, k).r = performer_get(prev, k).r

\* C8 witness: a role set again in a frame that also holds another role
C8_Witness ==
    /\ PerformerCall("setitem", "performer_set")
    /\ value = <<"y", "x">>
    /\ PersonsOf(PeopleOf(prev), LastRole) = <<"x">>
    /\ \E R \in AllRoles \ {LastRole} : PersonsOf(PeopleOf(prev), R) # <<>>
    /\ prev["TMCL"][1][1] = LastRole

\* the outcome of the last call, as the facade's operations report it
Outcome == [f |-> func, id3 |-> id3, r |-> result]

\* C6: get, set and delete called with a key in any letter case do what the
\* call with the lowercase key does, composite keys included; after a
\* successful set under one spelling, get under the lowercase spelling
\* returns the value set.
C6_CaseInsensitive ==
    /\ op = "getitem" => Outcome \in GetItem(Get, prev, lower(key))
    /\ op = "setitem" => Outcome \in SetItem(Set, prev, lower(key), value)
    /\ op = "delitem" => Outcome \in DelItem(Delete, prev, lower(key))
    /\ (/\ op = "setitem"
        /\ result.exc = "none"
        /\ func.fn = "performer_set" => value # <<>>) =>
          \A o \in GetItem(Get, id3, lower(key)) : o.r = Ok(value)

\* C6 witness: a composite key set in mixed case
C6_Witness ==
    /\ op = "setitem"
    /\ key = k_Performer_Guitar
    /\ value = <<"y", "x">>
    /\ result.exc = "none"
    /\ PersonsOf(id3["TMCL"], r_guitar) = value

\* C10: get, keys and pprint leave the container as it was, and so does
\* every get, set or delete that raises EasyID3KeyError or KeyError.
C10_NoEffect ==
    /\ op \in {"getitem", "keys", "pprint"} => id3 = prev
    /\ (op \in {"getitem", "setitem", "delitem"} /\ IsKeyError(result)) =>
          id3 = prev

\* C10 witness: delete("performer:drums") on a frame with no pair of drums
C10_Witness ==
    /\ op = "delitem"
    /\ key = k_performer_drums
    /\ result = KeyError(k_performer_drums)
    /\ HasFrame(prev, "TMCL")
    /\ prev["TMCL"] # <<>>
    /\ id3 = prev

\* get("performer:guitar") on a container with no performer frame
C10_WitnessGet ==
    /\ op = "getitem"
    /\ key = k_performer_guitar
    /\ result = KeyError(k_performer_guitar)
    /\ ~HasFrame(prev, "TMCL")

\* C4: keys() and pprint() never raise, and every key keys() returns is a
\* key on which get succeeds.
C4_KeysNeverRaise ==
    /\ op \in {"keys", "pprint"} => result.exc = "none"
    /\ op = "keys" =>
          \A k \in DOMAIN result.keys :
             \A o \in GetItem(Get, id3, k) : o.r.exc = "none"

\* the built-in table the call o looks its key up in
BuiltinOf(o) ==
    CASE o = "getitem" -> Builtin.Get
      [] o = "setitem" -> Builtin.Set
      [] o = "delitem" -> Builtin.Delete

\* frame fid is the same in containers a and b
SameFrame(a, b, fid) ==
    /\ HasFrame(a, fid) <=> HasFrame(b, fid)
    /\ HasFrame(a, fid) => a[fid] = b[fid]

\* k is "performer:<role>"
IsPerformerRoleKey(k) ==
    /\ Len(k) >= Len(k_performer_colon)
    /\ SubSeq(k, 1, Len(k_performer_colon)) = k_performer_colon

\* C5: a key that equals a registered pattern resolves to the behaviour
\* registered under that pattern, also when a glob matches it; a glob is
\* used only when there is no literal entry.  With the built-in tables
\* "performer" resolves to the TPE2 text behaviour, "performer:<role>" to the
\* "performer:*" behaviour, and a call on one leaves the other's frame alone.
C5_LiteralFirst ==
    (op \in {"getitem", "setitem", "delitem"}) =>
        LET t == TableOf(op)
            k == lower(key)
        IN  /\ k \in DOMAIN t => func = t[k]
            /\ (k \notin DOMAIN t /\ func # None) =>
                  \E p \in DOMAIN t : fnmatchcase(k, p) /\ func = t[p]
            /\ (regs = 0 /\ k = k_performer) =>
                  /\ func = BuiltinOf(op)[k_performer]
                  /\ func.frameid = "TPE2"
                  /\ SameFrame(prev, id3, "TMCL")
            /\ (regs = 0 /\ IsPerformerRoleKey(k)) =>
                  /\ func = BuiltinOf(op)[k_performer_star]
                  /\ func.frameid = "TMCL"
                  /\ SameFrame(prev, id3, "TPE2")

\* C5 witness: get("performer") while the glob "p*" holds another getter
C5_Witness ==
    /\ op = "getitem"
    /\ key = k_performer
    /\ lower(k_P_star) \in DOMAIN Get
    /\ fnmatchcase(k_performer, lower(k_P_star))
    /\ Get[lower(k_P_star)] = Fn("genre_get", "TCON")
    /\ func = Fn("text_getter", "TPE2")

\* with the built-in tables, a set on "performer:guitar" beside a TPE2 frame
C5_WitnessBuiltin ==
    /\ op = "setitem"
    /\ regs = 0
    /\ key = k_performer_guitar
    /\ HasFrame(prev, "TPE2")
    /\ HasFrame(id3, "TMCL")

\* table new is table old with fn stored under k, or old itself when the
\* registration left the kind out
Stored(old, new, fn, k) ==
    /\ DOMAIN new = DOMAIN old \cup (IF fn # None THEN {k} ELSE {})
    /\ \A q \in DOMAIN new : new[q] = IF q = k /\ fn # None THEN fn ELSE old[q]

\* C9: a registration stores each behaviour it supplies under the lowercased
\* pattern in the table of its kind and changes no other entry; a kind it
\* leaves out keeps what it had.
C9_Registration ==
    [][op' \in {"RegisterKey", "RegisterTextKey"} =>
          /\ Stored(Get, Get', args'.getter, lower(key'))
          /\ Stored(Set, Set', args'.setter, lower(key'))
          /\ Stored(Delete, Delete', args'.deleter, lower(key'))
          /\ Stored(List, List', args'.lister, lower(key'))]_vars

\* C9 witness: a second registration under "P*" that leaves the getter out
\* and replaces the setter, the first one's getter still stored
C9_Witness ==
    /\ op = "RegisterKey"
    /\ regs = 2
    /\ key = k_P_star
    /\ args.getter = None
    /\ args.setter = Fn("genre_set", "TCON")
    /\ lower(k_P_star) \in DOMAIN Get
    /\ Get[lower(k_P_star)] = Fn("date_get", "TDRC")
    /\ Set[lower(k_P_star)] = Fn("genre_set", "TCON")

====
